---- MODULE Spec2Model ----
(***************************************************************************)
(* Hospital_Management_V3: the availability slot generator                 *)
(* (app.py, generate_time_slots) and the request handlers that store the   *)
(* working windows and appointments it is applied to.                      *)
(*                                                                         *)
(* A time-of-day string "HH:MM" is the pair <<HH, MM>> of its two number   *)
(* fields; None and the empty string are the empty tuple.  A datetime is   *)
(* the number of minutes since 1900-01-01 00:00, the date strptime gives a *)
(* string that carries no date.  The range of datetime (years 1 to 9999)   *)
(* is far outside the minutes the bounds below reach and is not modelled.  *)
(*                                                                         *)
(* SpecApp runs the handlers with the database answering every statement.  *)
(* SpecTraced runs them with a statement, or the connection, failing, and  *)
(* records in db_log what each request did with its connection.  A failed  *)
(* write leaves the tables as they were: the transaction is not committed  *)
(* and closing the connection discards it.  Of a doctor's credentials the  *)
(* username is state; the password hash is not.                            *)
(*                                                                         *)
(* SpecRecords adds the doctors, patients and prescriptions tables with    *)
(* delete_doctor, delete_patient and the prescriptions form; delete_patient*)
(* is two steps, its COUNT and its DELETE, since the server runs requests  *)
(* in threads.  SpecWindows and SpecRoles are smaller runs of the same     *)
(* handlers.  SpecConn steps through database.get_db_connection.           *)
(***************************************************************************)
EXTENDS Integers, Sequences, FiniteSets, TLC

\* ------------------------------------------------------------------ bounds

\* The time grid of the enumerated inputs has MaxTicks + 1 points.
MaxTicks == 6

\* Loop iterations explored when interval <= 0 (the loop has no bound there).
MaxIter == 3

\* The time grid of the repeated-call specification has CallTicks + 1 points.
CallTicks == 1

\* ------------------------------------------------------- strings and times

NoneStr == <<>>

\* Python truthiness of an optional string: None and "" are falsy.
Truthy(s) == s # NoneStr

\* datetime.strptime(s, '%H:%M') succeeds: hour 0..23, minute 0..59.
ValidTime(s) == Len(s) = 2 /\ s[1] \in 0..23 /\ s[2] \in 0..59

\* datetime.strptime(s, '%H:%M'), in minutes since 1900-01-01 00:00.
strptime(s) == s[1] * 60 + s[2]

\* t.strftime('%H:%M'): the 24-hour time of day of datetime t.
strftime_HM(t) == <<(t \div 60) % 24, t % 60>>

\* t.strftime('%I:%M %p').lower(): 12-hour clock, 12 for hour 0 and 12.
strftime_IMp(t) ==
    LET h == (t \div 60) % 24
    IN  <<IF h % 12 = 0 THEN 12 ELSE h % 12, t % 60,
          IF h < 12 THEN "am" ELSE "pm">>

\* The dict appended for the slot [current_time, slot_end).
SlotDict(current_time_, slot_end_) ==
    [start         |-> strftime_HM(current_time_),
     end           |-> strftime_HM(slot_end_),
     display_start |-> strftime_IMp(current_time_),
     display_end   |-> strftime_IMp(slot_end_)]

\* ------------------------------------------------- generate_time_slots

\* interval's default value.
DefaultInterval == 15

\* The break test of the loop: both break strings are set.
HasBreak(break_start_, break_end_) == Truthy(break_start_) /\ Truthy(break_end_)

\* (mutant) the skip rule with a strict test of the candidate's start.
InBreakStrict(current_time_, slot_end_, break_start_, break_end_) ==
    /\ current_time_ > strptime(break_start_)
    /\ slot_end_ <= strptime(break_end_)

\* (mutant) the skip rule without the test of the candidate's end.
InBreakStartOnly(current_time_, slot_end_, break_start_, break_end_) ==
    current_time_ >= strptime(break_start_)

\* The skip rule: the candidate starts at or after break_start and ends at or
\* before break_end.
InBreak(current_time_, slot_end_, break_start_, break_end_) ==
    /\ current_time_ >= strptime(break_start_)
    /\ slot_end_ <= strptime(break_end_)

\* (mutant) the last candidate, ending at end_time, is not appended.
EmitsStrict(slot_end_, end_time_) == slot_end_ < end_time_

\* (mutant) every candidate is appended, the end test forgotten.
EmitsUnchecked(slot_end_, end_time_) == TRUE

\* The candidate is appended when it ends at or before end_time.
Emits(slot_end_, end_time_) == slot_end_ <= end_time_

\* (mutant) the cursor moves one minute past the candidate's end.
AdvanceGap(current_time_, slot_end_) == slot_end_ + 1

\* (mutant) the cursor stops one minute short of the candidate's end.
AdvanceOverlap(current_time_, slot_end_) == slot_end_ - 1

\* The cursor after an iteration that did not skip.
Advance(current_time_, slot_end_) == slot_end_

\* One iteration of the while loop from cursor current_time_: the cursor and
\* the list after it, or the exception it raises.
LoopBody(current_time_, end_time_, break_start_, break_end_, interval_, slots_) ==
    LET slot_end == current_time_ + interval_
    IN  IF /\ HasBreak(break_start_, break_end_)
           /\ ~(ValidTime(break_start_) /\ ValidTime(break_end_))
        THEN [current_time |-> current_time_, slots |-> slots_,
              exc |-> "ValueError"]
        ELSE IF /\ HasBreak(break_start_, break_end_)
                /\ InBreak(current_time_, slot_end, break_start_, break_end_)
        THEN [current_time |-> strptime(break_end_), slots |-> slots_,
              exc |-> "none"]
        ELSE [current_time |-> Advance(current_time_, slot_end),
              slots |-> IF Emits(slot_end, end_time_)
                        THEN Append(slots_, SlotDict(current_time_, slot_end))
                        ELSE slots_,
              exc |-> "none"]

\* The while loop run to its end.
RECURSIVE RunLoop(_, _, _, _, _, _)
RunLoop(current_time_, end_time_, break_start_, break_end_, interval_, slots_) ==
    IF ~(current_time_ < end_time_)
    THEN [slots |-> slots_, exc |-> "none"]
    ELSE LET r == LoopBody(current_time_, end_time_, break_start_, break_end_,
                           interval_, slots_)
         IN  IF r.exc # "none"
             THEN [slots |-> r.slots, exc |-> r.exc]
             ELSE RunLoop(r.current_time, end_time_, break_start_, break_end_,
                          interval_, r.slots)

\* generate_time_slots as a function of its arguments (interval >= 1): the
\* list it returns, or the exception it raises.
generate_time_slots(start_time_, end_time_, break_start_, break_end_, interval_) ==
    IF ~(ValidTime(start_time_) /\ ValidTime(end_time_))
    THEN [slots |-> <<>>, exc |-> "ValueError"]
    ELSE RunLoop(strptime(start_time_), strptime(end_time_), break_start_,
                 break_end_, interval_, <<>>)

\* (mutant) the list is shared between calls, as a mutable default argument
\* or a module-level list would be.
InitialSlotsKept(slots_) == slots_

\* Line 71: the call starts from a fresh empty list, whatever list the
\* previous call built (slots_).
InitialSlots(slots_) == <<>>

\* ------------------------------------------------------------ dates

\* A calendar date string "YYYY-MM-DD" is the triple <<YYYY, MM, DD>>.
IsLeap(y) == y % 4 = 0 /\ (y % 100 # 0 \/ y % 400 = 0)

DaysInMonth(y, m) ==
    IF m = 2 THEN (IF IsLeap(y) THEN 29 ELSE 28)
    ELSE IF m \in {4, 6, 9, 11} THEN 30 ELSE 31

\* datetime.strptime(s, '%Y-%m-%d') succeeds.
ValidDate(s) ==
    /\ Len(s) = 3
    /\ s[1] \in 1..9999
    /\ s[2] \in 1..12
    /\ s[3] \in 1..DaysInMonth(s[1], s[2])

DaysBeforeYear(y) ==
    LET p == y - 1 IN p * 365 + p \div 4 - p \div 100 + p \div 400

RECURSIVE DaysBeforeMonth(_, _)
DaysBeforeMonth(y, m) ==
    IF m = 1 THEN 0 ELSE DaysBeforeMonth(y, m - 1) + DaysInMonth(y, m - 1)

\* The proleptic Gregorian ordinal of a date, 1 for 0001-01-01.
ToOrdinal(s) == DaysBeforeYear(s[1]) + DaysBeforeMonth(s[1], s[2]) + s[3]

WeekdayNames ==
    <<"Monday", "Tuesday", "Wednesday", "Thursday", "Friday", "Saturday",
      "Sunday">>

\* date_obj.strftime('%A'): the weekday name of a date.
strftime_A(s) == WeekdayNames[((ToOrdinal(s) + 6) % 7) + 1]

\* ------------------------------------------------------------------ state

VARIABLES
    args,          \* the arguments of the running generate_time_slots call
    pc,            \* "call" | "loop" | "done" | "raised"
    current_time,  \* the cursor
    end_time,      \* end_time after line 73 rebinds it to a datetime
    slots,         \* the list being built
    exc,           \* the exception raised, "none" if none
    iters,         \* loop iterations run by this call
    remembered,    \* an earlier completed call: its arguments and result
    between        \* a call with other arguments ended since the remembered one

genVars ==
    <<args, pc, current_time, end_time, slots, exc, iters, remembered, between>>

VARIABLES
    session,              \* the browser session: user_id, user_type, hospital_id
    doctor_slots,         \* the doctor_slots table, rows in rowid order
    appointments,         \* the appointments table, rows in rowid order
    next_appointment_id,  \* the id AUTOINCREMENT gives the next appointment
    request,              \* the latest request, when it was get_doctor_slots
    response,             \* and the response to it
    posted,               \* history: the row of each key's latest stored POST
    usernames,            \* doctors.username by doctor id, "" for NULL
    db_log                \* what a traced request did with its connection

VARIABLES
    doctors,           \* the doctors table: id and hospital_id of each row
    patients,          \* the patients table: id and hospital_id of each row
    prescriptions,     \* the prescriptions table: appointment_id, hospital_id
    deleted_patients,  \* history: the ids delete_patient removed
    pending_delete     \* a delete_patient request between its COUNT and DELETE

recordVars == <<doctors, patients, prescriptions, deleted_patients, pending_delete>>

VARIABLES
    conn_pc,      \* where a call of database.get_db_connection is
    attempt,      \* its loop variable
    conn_errors,  \* the exceptions its attempts raised, in order
    conn_result,  \* what the call returned or raised
    slept,        \* seconds the call spent in time.sleep
    conn_calls    \* calls made so far

connVars == <<conn_pc, attempt, conn_errors, conn_result, slept, conn_calls>>

appVars ==
    <<session, doctor_slots, appointments, next_appointment_id, request, response,
      posted, usernames, db_log, recordVars, connVars>>

vars == <<genVars, appVars>>

\* No session keys: nobody is logged in.
NoSession == [user_id |-> 0, user_type |-> "none", hospital_id |-> 0]

NoRequest == [doctor_id |-> 0, date |-> <<>>, fault |-> "none"]

NoResponse == [status |-> 0, error |-> "none", slots |-> <<>>, booked_slots |-> <<>>]

\* The doctors table at the start: one doctor added by each hospital's admin.
DoctorRows == {[id |-> 1, hospital_id |-> 1], [id |-> 2, hospital_id |-> 2]}

\* The patients table at the start: hospital 1's admin added one patient.
PatientRows == {[id |-> 1, hospital_id |-> 1]}

\* No delete_patient request is between its two statements.
NoPending == [patient_id |-> 0, hospital_id |-> 0]

\* A call of database.get_db_connection that has neither returned nor raised.
NoResult == [kind |-> "none", attempt |-> 0, error |-> <<>>]

\* No call of database.get_db_connection has been made.
ConnIdle ==
    /\ conn_pc = "idle"
    /\ attempt = 0
    /\ conn_errors = <<>>
    /\ conn_result = NoResult
    /\ slept = 0
    /\ conn_calls = 0

\* The database init_db leaves, with the two doctors, and no request yet.
FreshDatabase ==
    /\ ConnIdle
    /\ doctor_slots = <<>>
    /\ appointments = <<>>
    /\ next_appointment_id = 1
    /\ request = NoRequest
    /\ response = NoResponse
    /\ posted = {}
    /\ usernames = [id \in {1, 2} |-> ""]
    /\ db_log = <<>>
    /\ doctors = DoctorRows
    /\ patients = PatientRows
    /\ prescriptions = {}
    /\ deleted_patients = {}
    /\ pending_delete = NoPending

\* The application before any request.
AppIdle ==
    /\ session = NoSession
    /\ FreshDatabase

\* ----------------------------------------------------- enumerated inputs

\* Times of day five minutes apart, from 11:40, across noon.
TimeGrid == {strftime_HM(11 * 60 + 40 + 5 * k) : k \in 0..MaxTicks}

\* A string strptime rejects.
BadTime == <<24, 0>>

Intervals == {-5, 0, 5, 7, 10, DefaultInterval}

Args(starts, ends, breaks, intervals) ==
    [start_time : starts, end_time : ends, break_start : breaks,
     break_end : breaks, interval : intervals]

\* The scenario of a morning with a half-hour break.
ScenarioArgs ==
    [start_time |-> <<9, 0>>, end_time |-> <<12, 0>>,
     break_start |-> <<10, 30>>, break_end |-> <<11, 0>>,
     interval |-> DefaultInterval]

GenArgs ==
    Args(TimeGrid \cup {BadTime}, TimeGrid \cup {BadTime},
         TimeGrid \cup {NoneStr, BadTime}, Intervals)
    \cup {ScenarioArgs}

\* No call remembered yet: arguments no call is made with.
NoCall ==
    [args |-> [start_time |-> NoneStr, end_time |-> NoneStr,
               break_start |-> NoneStr, break_end |-> NoneStr, interval |-> 0],
     slots |-> <<>>, exc |-> "none"]

\* ---------------------------------------------------------------- actions

GenInit ==
    /\ args \in GenArgs
    /\ pc = "call"
    /\ current_time = 0
    /\ end_time = 0
    /\ slots = <<>>
    /\ exc = "none"
    /\ iters = 0
    /\ remembered = NoCall
    /\ between = FALSE
    /\ AppIdle

\* Lines 71-73: the empty list and the two strptime calls.
Enter ==
    /\ pc = "call"
    /\ slots' = InitialSlots(slots)
    /\ iters' = 0
    /\ IF ValidTime(args.start_time) /\ ValidTime(args.end_time)
       THEN /\ current_time' = strptime(args.start_time)
            /\ end_time' = strptime(args.end_time)
            /\ pc' = "loop"
            /\ exc' = "none"
       ELSE /\ pc' = "raised"
            /\ exc' = "ValueError"
            /\ UNCHANGED <<current_time, end_time>>
    /\ UNCHANGED <<args, remembered, between>>
    /\ UNCHANGED appVars

\* Lines 75-95: one iteration of the while loop.
Iterate ==
    /\ pc = "loop"
    /\ current_time < end_time
    /\ args.interval <= 0 => iters < MaxIter
    /\ LET r == LoopBody(current_time, end_time, args.break_start,
                         args.break_end, args.interval, slots)
       IN  /\ current_time' = r.current_time
           /\ slots' = r.slots
           /\ exc' = r.exc
           /\ pc' = IF r.exc = "none" THEN "loop" ELSE "raised"
    /\ iters' = iters + 1
    /\ UNCHANGED <<args, end_time, remembered, between>>
    /\ UNCHANGED appVars

\* Lines 75 and 97: the loop condition fails and the list is returned.
Return ==
    /\ pc = "loop"
    /\ ~(current_time < end_time)
    /\ pc' = "done"
    /\ UNCHANGED <<args, current_time, end_time, slots, exc, iters, remembered,
                   between>>
    /\ UNCHANGED appVars

GenNext == Enter \/ Iterate \/ Return

Spec == GenInit /\ [][GenNext]_vars

\* The interpreter runs a started call on: every enabled step is taken.
FairSpec == Spec /\ WF_vars(GenNext)

\* ------------------------------------------------- repeated calls

\* Times of day a quarter of an hour apart, from 11:40.
CallGrid == {strftime_HM(11 * 60 + 40 + 15 * k) : k \in 0..CallTicks}

CallArgs ==
    Args(CallGrid, CallGrid, CallGrid \cup {NoneStr}, {5})

CallInit ==
    /\ args \in CallArgs
    /\ pc = "call"
    /\ current_time = 0
    /\ end_time = 0
    /\ slots = <<>>
    /\ exc = "none"
    /\ iters = 0
    /\ remembered = NoCall
    /\ between = FALSE
    /\ AppIdle

\* The next call of generate_time_slots, made after the previous one ended
\* (its locals are gone; the list it built is the caller's).  The ended call
\* may be the one remembered for comparison.
Call ==
    /\ pc \in {"done", "raised"}
    /\ args' \in CallArgs
    /\ pc' = "call"
    /\ \/ /\ remembered' = [args |-> args, slots |-> slots, exc |-> exc]
          /\ between' = FALSE
       \/ /\ remembered' = remembered
          /\ between' = (between \/ (remembered # NoCall /\ args # remembered.args))
    /\ current_time' = 0
    /\ end_time' = 0
    /\ exc' = "none"
    /\ iters' = 0
    /\ UNCHANGED slots
    /\ UNCHANGED appVars

CallNext == Enter \/ Iterate \/ Return \/ Call

SpecCalls == CallInit /\ [][CallNext]_vars

\* ------------------------------------------------- the request handlers

\* The registered staff accounts; a hospital's id is its staff account's id.
Hospitals == {1, 2}

\* The guard of every /admin/ handler.
IsAdmin == session.user_type = "admin"

\* The guard of the gated /doctor/ handlers.
IsDoctor == session.user_type = "doctor"

\* Python's all([...]) over form fields: every field is non-empty.
AllSet(fields) == \A i \in 1..Len(fields) : Truthy(fields[i])

\* The values a POST may carry for a window: times of day, a string that is
\* no time of day, and fields left empty.
WindowInputs ==
    {[start_time |-> <<9, 0>>, end_time |-> <<10, 0>>,
      break_start |-> NoneStr, break_end |-> NoneStr],
     [start_time |-> <<9, 0>>, end_time |-> <<10, 30>>,
      break_start |-> <<9, 30>>, break_end |-> <<10, 0>>],
     [start_time |-> BadTime, end_time |-> <<10, 0>>,
      break_start |-> NoneStr, break_end |-> NoneStr],
     [start_time |-> <<9, 0>>, end_time |-> NoneStr,
      break_start |-> NoneStr, break_end |-> NoneStr]}

DayInputs == {"Monday"}

\* 2024-01-07 is a Sunday, 2024-01-08 a Monday; there is no 2024-02-30.
DateInputs == {<<2024, 1, 7>>, <<2024, 1, 8>>, <<2024, 2, 30>>}

BookingDates == {<<2024, 1, 8>>}

TimeSlotInputs == {<<9, 30>>, NoneStr}

StatusInputs == {"Cancelled", ""}

\* Appointments inserted in a run.
MaxAppts == 2

\* No call of generate_time_slots is traced.
GenIdle ==
    /\ args = NoCall.args
    /\ pc = "idle"
    /\ current_time = 0
    /\ end_time = 0
    /\ slots = <<>>
    /\ exc = "none"
    /\ iters = 0
    /\ remembered = NoCall
    /\ between = FALSE

AppInit ==
    /\ AppIdle
    /\ GenIdle

\* Every handler but get_doctor_slots: the latest request is not one of its.
OtherRequest ==
    /\ request' = NoRequest
    /\ response' = NoResponse

\* login, POST as admin (lines 124-133): with the right password the session
\* is replaced by the staff account's; otherwise it is left as it is.
login(h, ok) ==
    /\ session' = IF ok
                  THEN [user_id |-> h, user_type |-> "admin", hospital_id |-> h]
                  ELSE session
    /\ OtherRequest
    /\ UNCHANGED <<doctor_slots, appointments, next_appointment_id, posted, usernames, db_log>>
    /\ UNCHANGED <<genVars, recordVars, connVars>>

\* doctor_login, POST (lines 171-187).
doctor_login(d, ok) ==
    /\ session' = IF ok
                  THEN [user_id |-> d.id, user_type |-> "doctor",
                        hospital_id |-> d.hospital_id]
                  ELSE session
    /\ OtherRequest
    /\ UNCHANGED <<doctor_slots, appointments, next_appointment_id, posted, usernames, db_log>>
    /\ UNCHANGED <<genVars, recordVars, connVars>>

\* logout (lines 225-228).
logout ==
    /\ session' = NoSession
    /\ OtherRequest
    /\ UNCHANGED <<doctor_slots, appointments, next_appointment_id, posted, usernames, db_log>>
    /\ UNCHANGED <<genVars, recordVars, connVars>>

\* (mutant) the key without the day of the week.
SameSlotKeyAnyDay(row, doctor_id, day, hospital_id) ==
    /\ row.doctor_id = doctor_id
    /\ row.hospital_id = hospital_id

\* The key of a doctor_slots row.
SameSlotKey(row, doctor_id, day, hospital_id) ==
    /\ row.doctor_id = doctor_id
    /\ row.day_of_week = day
    /\ row.hospital_id = hospital_id

\* Lines 476-479: the row the INSERT writes.
SlotRow(doctor_id, day, w, hospital_id) ==
    [doctor_id |-> doctor_id, day_of_week |-> day,
     start_time |-> w.start_time, end_time |-> w.end_time,
     break_start |-> w.break_start, break_end |-> w.break_end,
     hospital_id |-> hospital_id]

\* (mutant) the INSERT without the DELETE before it.
ReplaceWindowKeep(table, doctor_id, day, w, hospital_id) ==
    Append(table, SlotRow(doctor_id, day, w, hospital_id))

\* Lines 474-479: the DELETE of the key's rows, then the INSERT.
ReplaceWindow(table, doctor_id, day, w, hospital_id) ==
    LET Other(row) == ~SameSlotKey(row, doctor_id, day, hospital_id)
    IN  Append(SelectSeq(table, Other), SlotRow(doctor_id, day, w, hospital_id))

\* Lines 456-460: the doctor is looked up in the session's hospital.
DoctorFound(doctor_id) ==
    \E d \in doctors : d.id = doctor_id /\ d.hospital_id = session.hospital_id

\* Lines 450-471: the guards a POST passes before the window is written.
SlotsPostAccepted(doctor_id, day, w) ==
    /\ IsAdmin
    /\ DoctorFound(doctor_id)
    /\ day # "" /\ AllSet(<<w.start_time, w.end_time>>)

\* set_doctor_slots, POST (lines 449-487), the database answering: what the
\* request does to the tables.  posted remembers the row each key got last.
set_doctor_slots_post(doctor_id, day, w) ==
    /\ IF SlotsPostAccepted(doctor_id, day, w)
       THEN /\ doctor_slots' = ReplaceWindow(doctor_slots, doctor_id, day, w,
                                             session.hospital_id)
            /\ posted' =
                   {r \in posted :
                       ~SameSlotKey(r, doctor_id, day, session.hospital_id)}
                   \cup {SlotRow(doctor_id, day, w, session.hospital_id)}
       ELSE UNCHANGED <<doctor_slots, posted>>
    /\ OtherRequest
    /\ UNCHANGED <<session, appointments, next_appointment_id, usernames>>
    /\ UNCHANGED <<genVars, recordVars, connVars>>

set_doctor_slots(doctor_id, day, w) ==
    /\ set_doctor_slots_post(doctor_id, day, w)
    /\ UNCHANGED db_log

\* (mutant) a table that refuses a second live appointment on a slot.
AppointmentConstraintUnique(table, row) ==
    \A i \in 1..Len(table) :
        ~ /\ table[i].doctor_id = row.doctor_id
          /\ table[i].date = row.date
          /\ table[i].time_slot = row.time_slot
          /\ table[i].hospital_id = row.hospital_id
          /\ table[i].status # "Cancelled"

\* database.py lines 97-110: the appointments table declares a primary key
\* and foreign keys, nothing over (doctor_id, date, time_slot); the doctor and
\* the patient of this model exist, so every row is accepted.
AppointmentConstraint(table, row) == TRUE

\* Lines 578-583: the row of the INSERT; status takes the column's default.
AppointmentRow(patient_id, doctor_id, date, time_slot) ==
    [id |-> next_appointment_id, patient_id |-> patient_id[1],
     doctor_id |-> doctor_id[1], date |-> date,
     time_slot |-> time_slot, status |-> "Scheduled",
     hospital_id |-> session.hospital_id]

\* (mutant) the POST without the session guard of lines 562-563.
BookingPostAcceptedUnguarded(patient_id, doctor_id, date, time_slot) ==
    AllSet(<<patient_id, doctor_id, date, time_slot>>)

\* Lines 562-576: the guards a POST passes before the INSERT.
BookingPostAccepted(patient_id, doctor_id, date, time_slot) ==
    IsAdmin /\ AllSet(<<patient_id, doctor_id, date, time_slot>>)

\* schedule_appointment, POST (lines 561-590), the database answering: the
\* row gets the default status and the session's hospital.
schedule_appointment_post(patient_id, doctor_id, date, time_slot) ==
    /\ next_appointment_id <= MaxAppts
    /\ IF /\ BookingPostAccepted(patient_id, doctor_id, date, time_slot)
          /\ AppointmentConstraint(appointments,
                 AppointmentRow(patient_id, doctor_id, date, time_slot))
       THEN /\ appointments' =
                   Append(appointments,
                          AppointmentRow(patient_id, doctor_id, date, time_slot))
            /\ next_appointment_id' = next_appointment_id + 1
       ELSE UNCHANGED <<appointments, next_appointment_id>>
    /\ OtherRequest
    /\ UNCHANGED <<session, doctor_slots, posted, usernames>>
    /\ UNCHANGED <<genVars, recordVars, connVars>>

schedule_appointment(patient_id, doctor_id, date, time_slot) ==
    /\ schedule_appointment_post(patient_id, doctor_id, date, time_slot)
    /\ UNCHANGED db_log

\* delete_appointment (lines 656-673): the DELETE of the row with the id in
\* the session's hospital.
delete_appointment(appointment_id) ==
    /\ appointments' =
           IF IsAdmin
           THEN LET Kept(row) == ~ /\ row.id = appointment_id
                                   /\ row.hospital_id = session.hospital_id
                IN  SelectSeq(appointments, Kept)
           ELSE appointments
    /\ OtherRequest
    /\ UNCHANGED <<session, doctor_slots, next_appointment_id, posted, usernames, db_log>>
    /\ UNCHANGED <<genVars, recordVars, connVars>>

\* update_appointment_status (lines 797-822): the UPDATE of the logged-in
\* doctor's appointment.
update_appointment_status(appointment_id, status) ==
    /\ appointments' =
           IF IsDoctor /\ status # ""
           THEN [i \in 1..Len(appointments) |->
                    IF /\ appointments[i].id = appointment_id
                       /\ appointments[i].doctor_id = session.user_id
                       /\ appointments[i].hospital_id = session.hospital_id
                    THEN [appointments[i] EXCEPT !.status = status]
                    ELSE appointments[i]]
           ELSE appointments
    /\ OtherRequest
    /\ UNCHANGED <<session, doctor_slots, next_appointment_id, posted, usernames, db_log>>
    /\ UNCHANGED <<genVars, recordVars, connVars>>

\* (mutant) the query without its status test.
IsBookedAnyStatus(row, doctor_id, date, hospital_id) ==
    /\ row.doctor_id = doctor_id
    /\ row.date = date
    /\ row.hospital_id = hospital_id

\* (mutant) the query without its hospital test.
IsBookedAnyTenant(row, doctor_id, date, hospital_id) ==
    /\ row.doctor_id = doctor_id
    /\ row.date = date
    /\ row.status # "Cancelled"

\* Lines 543-546: the WHERE clause of the booked-slots query.
IsBooked(row, doctor_id, date, hospital_id) ==
    /\ row.doctor_id = doctor_id
    /\ row.date = date
    /\ row.status # "Cancelled"
    /\ row.hospital_id = hospital_id

\* Lines 543-548: the time_slot of every booked row of an appointments table.
BookedSlotsIn(table, doctor_id, date, hospital_id) ==
    LET Booked(row) == IsBooked(row, doctor_id, date, hospital_id)
        rows == SelectSeq(table, Booked)
    IN  [i \in 1..Len(rows) |-> rows[i].time_slot]

BookedSlots(doctor_id, date, hospital_id) ==
    BookedSlotsIn(appointments, doctor_id, date, hospital_id)

\* (mutant) the booked slots are taken out of the list the response carries.
ResponseSlotsFree(generated, booked) ==
    LET Free(slot) == \A i \in 1..Len(booked) : booked[i] # slot.start
    IN  SelectSeq(generated, Free)

\* Lines 550-553: the response carries the generated list as it is.
ResponseSlots(generated, booked) == generated

Resp(status, error, slots_, booked) ==
    [status |-> status, error |-> error, slots |-> slots_, booked_slots |-> booked]

\* What may fail in a request's use of the database: nothing, the connection
\* (sqlite3.connect), or one of the statements it executes, counted from 1.
Faults == {"none", "connect", "execute1", "execute2"}

\* Lines 1206-1209: Flask's answer to an exception no handler caught.
InternalError == Resp(500, "Internal Server Error", <<>>, <<>>)

\* (mutant) the date is parsed before the session is looked at.
GuardOrderDateFirst(is_admin, date_ok) ==
    IF ~date_ok THEN "400" ELSE IF ~is_admin THEN "401" ELSE "pass"

\* Lines 517-524: the session guard, then the parse of the date.
GuardOrder(is_admin, date_ok) ==
    IF ~is_admin THEN "401" ELSE IF ~date_ok THEN "400" ELSE "pass"

\* (mutant) a failed query is swallowed into the 'not available' answer.
QueryFailedSwallowed(log) ==
    [response |-> Resp(200, "Doctor not available on this day", <<>>, <<>>),
     db_log |-> log \o <<"close">>]

\* Lines 554-558: an exception inside the try block is logged and answered
\* with 500; the finally block closes the connection.
QueryFailed(log) ==
    [response |-> Resp(500, "Server error", <<>>, <<>>),
     db_log |-> log \o <<"close">>]

\* get_doctor_slots (lines 516-558) for a session and the two tables it reads:
\* the response, and what the request did with its database connection.
get_doctor_slots_run(session_, slots_table, appts_table, doctor_id, date, fault) ==
    LET guard == GuardOrder(session_.user_type = "admin", ValidDate(date))
    IN
    IF guard = "401"
    THEN [response |-> Resp(401, "Unauthorized", <<>>, <<>>), db_log |-> <<>>]
    ELSE IF guard = "400"
    THEN [response |-> Resp(400, "Invalid date format", <<>>, <<>>), db_log |-> <<>>]
    ELSE IF fault = "connect"
    THEN [response |-> InternalError, db_log |-> <<>>]
    ELSE IF fault = "execute1"
    THEN QueryFailed(<<"connect", "execute">>)
    ELSE
    LET day == strftime_A(date)
        Match(row) == SameSlotKey(row, doctor_id, day, session_.hospital_id)
        found == SelectSeq(slots_table, Match)
    IN  IF found = <<>>
        THEN [response |-> Resp(200, "Doctor not available on this day", <<>>, <<>>),
              db_log |-> <<"connect", "execute", "close">>]
        ELSE
        LET slot_info == found[1]
            generated == generate_time_slots(slot_info.start_time,
                             slot_info.end_time, slot_info.break_start,
                             slot_info.break_end, DefaultInterval)
            booked == BookedSlotsIn(appts_table, doctor_id, date,
                                    session_.hospital_id)
        IN  IF generated.exc # "none"
            THEN QueryFailed(<<"connect", "execute">>)
            ELSE IF fault = "execute2"
            THEN QueryFailed(<<"connect", "execute", "execute">>)
            ELSE [response |-> Resp(200, "none",
                                    ResponseSlots(generated.slots, booked), booked),
                  db_log |-> <<"connect", "execute", "execute", "close">>]

\* get_doctor_slots (lines 516-558): the response to a request for a doctor
\* and a date, the database answering every query.
get_doctor_slots_response(doctor_id, date) ==
    get_doctor_slots_run(session, doctor_slots, appointments, doctor_id, date,
                         "none").response

get_doctor_slots(doctor_id, date) ==
    /\ request' = [doctor_id |-> doctor_id, date |-> date, fault |-> "none"]
    /\ response' = get_doctor_slots_response(doctor_id, date)
    /\ UNCHANGED <<session, doctor_slots, appointments, next_appointment_id,
                   posted, usernames, db_log>>
    /\ UNCHANGED <<genVars, recordVars, connVars>>

\* get_doctor_slots (lines 516-558) with the database failing where fault
\* says, and the request's connection traced.
get_doctor_slots_traced(doctor_id, date, fault) ==
    LET run == get_doctor_slots_run(session, doctor_slots, appointments,
                                    doctor_id, date, fault)
    IN  /\ request' = [doctor_id |-> doctor_id, date |-> date, fault |-> fault]
        /\ response' = run.response
        /\ db_log' = run.db_log
        /\ UNCHANGED <<session, doctor_slots, appointments, next_appointment_id,
                       posted, usernames>>
        /\ UNCHANGED <<genVars, recordVars, connVars>>

DoctorIds == {d.id : d \in DoctorRows}

AppNext ==
    \/ \E h \in Hospitals, ok \in BOOLEAN : login(h, ok)
    \/ \E d \in doctors, ok \in BOOLEAN : doctor_login(d, ok)
    \/ logout
    \/ \E doctor_id \in DoctorIds, day \in DayInputs, w \in WindowInputs :
           set_doctor_slots(doctor_id, day, w)
    \/ \E doctor_id \in {<<d>> : d \in DoctorIds}, date \in BookingDates,
          time_slot \in TimeSlotInputs :
           schedule_appointment(<<1>>, doctor_id, date, time_slot)
    \/ \E appointment_id \in 1..MaxAppts, status \in StatusInputs :
           update_appointment_status(appointment_id, status)
    \/ \E appointment_id \in 1..MaxAppts : delete_appointment(appointment_id)
    \/ \E doctor_id \in DoctorIds, date \in DateInputs :
           get_doctor_slots(doctor_id, date)

SpecApp == AppInit /\ [][AppNext]_vars

\* ------------------------------------------- requests and their connection
\*
\* db_log lists what a request did with the connection it acquired:
\* "connect" (get_db_connection returned), "execute" (conn.execute was called,
\* answered or not), "commit" and "close".  A statement fails when fault
\* names it, and always on a connection that was closed.

\* The statements a request may see fail.
TracedFaults == Faults \cup {"execute3", "execute4"}

Fails(fault, n) ==
    fault = <<"execute1", "execute2", "execute3", "execute4", "execute5">>[n]

InLog(log, event) == \E i \in 1..Len(log) : log[i] = event

\* admin_dashboard (lines 232-260): four queries and conn.close() in a
\* straight line, no try block around them.
admin_dashboard_log(is_admin, fault) ==
    IF ~is_admin THEN <<>>
    ELSE IF fault = "connect" THEN <<>>
    ELSE IF Fails(fault, 1) THEN <<"connect", "execute">>
    ELSE IF Fails(fault, 2) THEN <<"connect", "execute", "execute">>
    ELSE IF Fails(fault, 3) THEN <<"connect", "execute", "execute", "execute">>
    ELSE IF Fails(fault, 4)
    THEN <<"connect", "execute", "execute", "execute", "execute">>
    ELSE <<"connect", "execute", "execute", "execute", "execute", "close">>

\* set_doctor_credentials (lines 399-446).  The try block, whose finally
\* closes the connection, starts at line 423, after the returns of lines
\* 409, 417 and 421; a GET goes from line 411 to line 446.
set_doctor_credentials_log(is_admin, found, method, username, password, existing, fault) ==
    IF ~is_admin THEN <<>>
    ELSE IF fault = "connect" THEN <<>>
    ELSE IF Fails(fault, 1) THEN <<"connect", "execute">>
    ELSE IF ~found THEN <<"connect", "execute">>
    ELSE IF method # "POST" THEN <<"connect", "execute">>
    ELSE IF Len(username) < 4 THEN <<"connect", "execute">>
    ELSE IF Len(password) < 8 THEN <<"connect", "execute">>
    ELSE IF Fails(fault, 2) THEN <<"connect", "execute", "execute", "close">>
    ELSE IF existing THEN <<"connect", "execute", "execute", "close">>
    ELSE IF Fails(fault, 3)
    THEN <<"connect", "execute", "execute", "execute", "close">>
    ELSE <<"connect", "execute", "execute", "execute", "commit", "close">>

\* set_doctor_slots (lines 449-513).  After a POST whose write failed, the
\* finally of line 487 has closed the connection that line 490 then uses.
set_doctor_slots_log(is_admin, found, method, fields_set, fault) ==
    IF ~is_admin THEN <<>>
    ELSE IF fault = "connect" THEN <<>>
    ELSE IF Fails(fault, 1) THEN <<"connect", "execute">>
    ELSE IF ~found THEN <<"connect", "execute">>
    ELSE IF method # "POST"
    THEN <<"connect", "execute", "execute", "close">>
    ELSE IF ~fields_set THEN <<"connect", "execute">>
    ELSE IF Fails(fault, 2)
    THEN <<"connect", "execute", "execute", "close", "execute", "close">>
    ELSE IF Fails(fault, 3)
    THEN <<"connect", "execute", "execute", "execute", "close", "execute", "close">>
    ELSE <<"connect", "execute", "execute", "execute", "commit", "close">>

\* schedule_appointment (lines 561-610), with the same shape.
schedule_appointment_log(is_admin, method, fields_set, accepted, fault) ==
    IF ~is_admin THEN <<>>
    ELSE IF fault = "connect" THEN <<>>
    ELSE IF method # "POST"
    THEN IF Fails(fault, 1)
         THEN <<"connect", "execute", "close">>
         ELSE <<"connect", "execute", "execute", "close">>
    ELSE IF ~fields_set THEN <<"connect">>
    ELSE IF Fails(fault, 1) \/ ~accepted
    THEN <<"connect", "execute", "close", "execute", "close">>
    ELSE <<"connect", "execute", "commit", "close">>

\* Every other handler's request, here one that wrote nothing.
NothingWritten ==
    /\ OtherRequest
    /\ UNCHANGED <<session, doctor_slots, appointments, next_appointment_id,
                   posted, usernames>>
    /\ UNCHANGED <<genVars, recordVars, connVars>>

admin_dashboard(fault) ==
    /\ db_log' = admin_dashboard_log(IsAdmin, fault)
    /\ NothingWritten

\* Lines 424-427: another doctor of the hospital has the username.
UsernameTaken(doctor_id, username) ==
    \E d \in doctors :
        /\ usernames[d.id] = username
        /\ d.id # doctor_id
        /\ d.hospital_id = session.hospital_id

set_doctor_credentials(method, doctor_id, username, password, fault) ==
    LET log == set_doctor_credentials_log(IsAdmin, DoctorFound(doctor_id),
                   method, username, password,
                   UsernameTaken(doctor_id, username), fault)
    IN  /\ db_log' = log
        /\ usernames' = IF InLog(log, "commit")
                        THEN [usernames EXCEPT ![doctor_id] = username]
                        ELSE usernames
        /\ OtherRequest
        /\ UNCHANGED <<session, doctor_slots, appointments, next_appointment_id,
                       posted>>
        /\ UNCHANGED <<genVars, recordVars, connVars>>

set_doctor_slots_traced(method, doctor_id, day, w, fault) ==
    LET log == set_doctor_slots_log(IsAdmin, DoctorFound(doctor_id), method,
                   day # "" /\ AllSet(<<w.start_time, w.end_time>>), fault)
    IN  /\ db_log' = log
        /\ IF InLog(log, "commit")
           THEN set_doctor_slots_post(doctor_id, day, w)
           ELSE NothingWritten

schedule_appointment_traced(method, patient_id, doctor_id, date, time_slot, fault) ==
    LET log == schedule_appointment_log(IsAdmin, method,
                   AllSet(<<patient_id, doctor_id, date, time_slot>>),
                   AppointmentConstraint(appointments,
                       AppointmentRow(patient_id, doctor_id, date, time_slot)),
                   fault)
    IN  /\ db_log' = log
        /\ IF InLog(log, "commit")
           THEN schedule_appointment_post(patient_id, doctor_id, date, time_slot)
           ELSE NothingWritten

Methods == {"GET", "POST"}

\* A window that parses, one whose end is before its start, one whose start
\* is no time of day, and one with the end left empty.
TracedWindows ==
    {[start_time |-> <<9, 0>>, end_time |-> <<10, 0>>,
      break_start |-> NoneStr, break_end |-> NoneStr],
     [start_time |-> <<10, 0>>, end_time |-> <<9, 0>>,
      break_start |-> NoneStr, break_end |-> NoneStr],
     [start_time |-> BadTime, end_time |-> <<10, 0>>,
      break_start |-> NoneStr, break_end |-> NoneStr],
     [start_time |-> <<9, 0>>, end_time |-> NoneStr,
      break_start |-> NoneStr, break_end |-> NoneStr]}

UsernameInputs == {"doc", "doctor1"}

PasswordInputs == {"short", "longenough"}

\* Nobody logged in, hospital 1's admin, or hospital 1's doctor.
TracedSessions ==
    {NoSession,
     [user_id |-> 1, user_type |-> "admin", hospital_id |-> 1],
     [user_id |-> 1, user_type |-> "doctor", hospital_id |-> 1]}

TracedInit ==
    /\ session \in TracedSessions
    /\ FreshDatabase
    /\ GenIdle

TracedNext ==
    \/ \E fault \in TracedFaults : admin_dashboard(fault)
    \/ \E method \in Methods, doctor_id \in DoctorIds,
          username \in UsernameInputs, password \in PasswordInputs,
          fault \in TracedFaults :
           set_doctor_credentials(method, doctor_id, username, password, fault)
    \/ \E method \in Methods, doctor_id \in DoctorIds, day \in DayInputs,
          w \in TracedWindows, fault \in TracedFaults :
           set_doctor_slots_traced(method, doctor_id, day, w, fault)
    \/ \E method \in Methods, date \in BookingDates,
          time_slot \in TimeSlotInputs, fault \in TracedFaults :
           schedule_appointment_traced(method, <<1>>, <<1>>, date, time_slot, fault)
    \/ \E doctor_id \in DoctorIds, date \in DateInputs, fault \in Faults :
           get_doctor_slots_traced(doctor_id, date, fault)

SpecTraced == TracedInit /\ [][TracedNext]_vars

\* ------------------------------------------- patients, prescriptions, doctors

\* Lines 832-839: the appointment of the logged-in doctor, joined to its
\* patient and its doctor.
PrescribableAppointment(appointment_id) ==
    \E i \in 1..Len(appointments) :
        /\ appointments[i].id = appointment_id
        /\ appointments[i].doctor_id = session.user_id
        /\ appointments[i].hospital_id = session.hospital_id
        /\ \E p \in patients : p.id = appointments[i].patient_id
        /\ \E d \in doctors : d.id = appointments[i].doctor_id

\* prescriptions, POST (lines 825-933): the prescription of the appointment
\* is updated when the hospital has one and inserted otherwise; the INSERT
\* fails on the UNIQUE appointment_id and is rolled back.
prescriptions_post(appointment_id) ==
    /\ prescriptions' =
           IF /\ IsDoctor
              /\ PrescribableAppointment(appointment_id)
              /\ \A r \in prescriptions : r.appointment_id # appointment_id
           THEN prescriptions \cup {[appointment_id |-> appointment_id,
                                     hospital_id |-> session.hospital_id]}
           ELSE prescriptions
    /\ OtherRequest
    /\ UNCHANGED <<session, doctor_slots, appointments, next_appointment_id,
                   posted, usernames, db_log>>
    /\ UNCHANGED <<doctors, patients, deleted_patients, pending_delete>>
    /\ UNCHANGED <<genVars, connVars>>

\* The four tables delete_doctor writes.
DoctorTables ==
    [doctor_slots |-> doctor_slots, prescriptions |-> prescriptions,
     appointments |-> appointments, doctors |-> doctors]

\* Lines 1147-1148.
DeleteDoctorSlots(t, doctor_id, hospital_id) ==
    LET Kept(row) == ~(row.doctor_id = doctor_id /\ row.hospital_id = hospital_id)
    IN  [t EXCEPT !.doctor_slots = SelectSeq(t.doctor_slots, Kept)]

\* Lines 1151-1157: the prescriptions of the doctor's appointments in the
\* hospital.
DeleteDoctorPrescriptions(t, doctor_id, hospital_id) ==
    LET ids == {t.appointments[i].id : i \in
                   {j \in 1..Len(t.appointments) :
                       /\ t.appointments[j].doctor_id = doctor_id
                       /\ t.appointments[j].hospital_id = hospital_id}}
    IN  [t EXCEPT !.prescriptions =
                      {r \in t.prescriptions : r.appointment_id \notin ids}]

\* (mutant) the DELETE of the appointments without its hospital test.
DeleteDoctorAppointmentsAnyTenant(t, doctor_id, hospital_id) ==
    LET Kept(row) == row.doctor_id # doctor_id
    IN  [t EXCEPT !.appointments = SelectSeq(t.appointments, Kept)]

\* Lines 1160-1161.
DeleteDoctorAppointments(t, doctor_id, hospital_id) ==
    LET Kept(row) == ~(row.doctor_id = doctor_id /\ row.hospital_id = hospital_id)
    IN  [t EXCEPT !.appointments = SelectSeq(t.appointments, Kept)]

\* Lines 1164-1165.
DeleteDoctorRow(t, doctor_id, hospital_id) ==
    [t EXCEPT !.doctors =
         {d \in t.doctors : ~(d.id = doctor_id /\ d.hospital_id = hospital_id)}]

\* Lines 1169-1170: conn.rollback() discards what the transaction wrote.
RolledBack(before, written) == before

\* delete_doctor (lines 1123-1176): the four tables after the request, fault
\* naming the statement that raises.
delete_doctor_tables(doctor_id, fault) ==
    LET h == session.hospital_id
        t0 == DoctorTables
        t1 == DeleteDoctorSlots(t0, doctor_id, h)
        t2 == DeleteDoctorPrescriptions(t1, doctor_id, h)
        t3 == DeleteDoctorAppointments(t2, doctor_id, h)
        t4 == DeleteDoctorRow(t3, doctor_id, h)
    IN  IF ~IsAdmin THEN t0
        ELSE IF fault = "connect" THEN t0
        ELSE IF Fails(fault, 1) THEN RolledBack(t0, t0)
        ELSE IF ~DoctorFound(doctor_id) THEN t0
        ELSE IF Fails(fault, 2) THEN RolledBack(t0, t0)
        ELSE IF Fails(fault, 3) THEN RolledBack(t0, t1)
        ELSE IF Fails(fault, 4) THEN RolledBack(t0, t2)
        ELSE IF Fails(fault, 5) THEN RolledBack(t0, t3)
        ELSE t4

delete_doctor(doctor_id, fault) ==
    LET t == delete_doctor_tables(doctor_id, fault)
    IN  /\ doctor_slots' = t.doctor_slots
        /\ prescriptions' = t.prescriptions
        /\ appointments' = t.appointments
        /\ doctors' = t.doctors
        /\ posted' = {r \in posted :
                          \E i \in 1..Len(t.doctor_slots) : t.doctor_slots[i] = r}
        /\ OtherRequest
        /\ UNCHANGED <<session, next_appointment_id, usernames, db_log>>
        /\ UNCHANGED <<patients, deleted_patients, pending_delete>>
        /\ UNCHANGED <<genVars, connVars>>

\* delete_patient (lines 1179-1191): the COUNT of the patient's appointments,
\* in any hospital; the request goes on to its DELETE when there are none.
delete_patient_count(patient_id) ==
    /\ pending_delete = NoPending
    /\ pending_delete' =
           IF /\ IsAdmin
              /\ \A i \in 1..Len(appointments) :
                     appointments[i].patient_id # patient_id
           THEN [patient_id |-> patient_id, hospital_id |-> session.hospital_id]
           ELSE NoPending
    /\ OtherRequest
    /\ UNCHANGED <<session, doctor_slots, appointments, next_appointment_id,
                   posted, usernames, db_log>>
    /\ UNCHANGED <<doctors, patients, prescriptions, deleted_patients>>
    /\ UNCHANGED <<genVars, connVars>>

\* delete_patient (lines 1193-1204): the DELETE and the commit of the request
\* that counted no appointment.
delete_patient_delete ==
    /\ pending_delete # NoPending
    /\ LET Removed(p) == /\ p.id = pending_delete.patient_id
                         /\ p.hospital_id = pending_delete.hospital_id
       IN  /\ patients' = {p \in patients : ~Removed(p)}
           /\ deleted_patients' =
                  deleted_patients \cup {p.id : p \in {q \in patients : Removed(q)}}
    /\ pending_delete' = NoPending
    /\ UNCHANGED <<session, doctor_slots, appointments, next_appointment_id,
                   request, response, posted, usernames, db_log>>
    /\ UNCHANGED <<doctors, prescriptions>>
    /\ UNCHANGED <<genVars, connVars>>

\* One window, stored for either doctor.
RecordWindows ==
    {[start_time |-> <<9, 0>>, end_time |-> <<10, 0>>,
      break_start |-> NoneStr, break_end |-> NoneStr]}

PatientIds == {p.id : p \in PatientRows}

\* The statement of delete_doctor that may raise: none, or the DELETE of
\* the prescriptions, after the slots were deleted.
DeleteFaults == {"none", "execute3"}

RecordsNext ==
    \/ \E h \in Hospitals, ok \in BOOLEAN : login(h, ok)
    \/ \E d \in doctors, ok \in BOOLEAN : doctor_login(d, ok)
    \/ logout
    \/ \E doctor_id \in DoctorIds, day \in DayInputs, w \in RecordWindows :
           set_doctor_slots(doctor_id, day, w)
    \/ \E patient_id \in PatientIds, doctor_id \in DoctorIds,
          date \in BookingDates :
           schedule_appointment(<<patient_id>>, <<doctor_id>>, date, <<9, 30>>)
    \/ \E appointment_id \in 1..MaxAppts : delete_appointment(appointment_id)
    \/ \E appointment_id \in 1..MaxAppts : prescriptions_post(appointment_id)
    \/ \E doctor_id \in DoctorIds, fault \in DeleteFaults :
           delete_doctor(doctor_id, fault)
    \/ \E patient_id \in PatientIds : delete_patient_count(patient_id)
    \/ delete_patient_delete

SpecRecords == AppInit /\ [][RecordsNext]_vars

\* Windows stored, read and removed with their doctor.
WindowsNext ==
    \/ \E h \in Hospitals, ok \in BOOLEAN : login(h, ok)
    \/ logout
    \/ \E doctor_id \in DoctorIds, day \in DayInputs, w \in WindowInputs :
           set_doctor_slots(doctor_id, day, w)
    \/ \E doctor_id \in DoctorIds, fault \in DeleteFaults :
           delete_doctor(doctor_id, fault)
    \/ \E doctor_id \in DoctorIds, date \in DateInputs :
           get_doctor_slots(doctor_id, date)

SpecWindows == AppInit /\ [][WindowsNext]_vars

\* Every handler that writes, under every session, one window to store.
RolesNext ==
    \/ \E h \in Hospitals, ok \in BOOLEAN : login(h, ok)
    \/ \E d \in doctors, ok \in BOOLEAN : doctor_login(d, ok)
    \/ logout
    \/ \E doctor_id \in DoctorIds, day \in DayInputs, w \in RecordWindows :
           set_doctor_slots(doctor_id, day, w)
    \/ \E doctor_id \in DoctorIds, date \in BookingDates,
          time_slot \in TimeSlotInputs :
           schedule_appointment(<<1>>, <<doctor_id>>, date, time_slot)
    \/ \E appointment_id \in 1..MaxAppts : delete_appointment(appointment_id)
    \/ \E appointment_id \in 1..MaxAppts, status \in StatusInputs :
           update_appointment_status(appointment_id, status)
    \/ \E appointment_id \in 1..MaxAppts : prescriptions_post(appointment_id)
    \/ \E doctor_id \in DoctorIds : delete_doctor(doctor_id, "none")
    \/ \E date \in BookingDates : get_doctor_slots(1, date)

SpecRoles == AppInit /\ [][RolesNext]_vars

\* -------------------------------------------- database.get_db_connection

\* Line 158.
max_retries == 3

\* Line 159, in seconds.
retry_delay == 1

\* Calls of get_db_connection made in a run.
MaxConnCalls == 2

\* The statements of the try block (lines 163-172) that can raise, in order:
\* get_db_path(), os.makedirs, sqlite3.connect and conn.execute("SELECT 1").
TrySteps == <<"get_db_path", "makedirs", "connect", "execute">>

StepAfter(step) ==
    CASE step = "get_db_path" -> "makedirs"
      [] step = "makedirs" -> "connect"
      [] step = "connect" -> "execute"

\* What a statement of the try block can raise.  The two filesystem calls
\* raise OSError, which is not an sqlite3.Error; the two sqlite3 calls raise
\* an sqlite3.Error or, as any call, another Exception.
Raises(step) ==
    IF step \in {"connect", "execute"}
    THEN {"sqlite3.Error", "Exception"}
    ELSE {"Exception"}

NoError == [attempt |-> 0, step |-> "none", kind |-> "none"]

InTry == \E i \in 1..Len(TrySteps) : conn_pc = TrySteps[i]

\* (mutant) the test of line 175 one attempt later.
RetryAllowedOnLast(attempt_) == attempt_ < max_retries

\* Line 175.
RetryAllowed(attempt_) == attempt_ < max_retries - 1

\* Lines 156-162: a call enters the loop with the first value of
\* range(max_retries).
get_db_connection ==
    /\ conn_pc \in {"idle", "returned", "raised"}
    /\ conn_calls < MaxConnCalls
    /\ conn_calls' = conn_calls + 1
    /\ conn_pc' = "get_db_path"
    /\ attempt' = 0
    /\ conn_errors' = <<>>
    /\ conn_result' = NoResult
    /\ slept' = 0
    /\ UNCHANGED genVars
    /\ UNCHANGED <<session, doctor_slots, appointments, next_appointment_id,
                   request, response, posted, usernames, db_log, recordVars>>

\* Lines 163-172: a statement of the try block raises nothing; after the
\* last one the connection is returned.
TryStatement ==
    /\ InTry
    /\ IF conn_pc = "execute"
       THEN /\ conn_pc' = "returned"
            /\ conn_result' = [kind |-> "conn", attempt |-> attempt,
                               error |-> NoError]
       ELSE /\ conn_pc' = StepAfter(conn_pc)
            /\ UNCHANGED conn_result
    /\ UNCHANGED <<attempt, conn_errors, slept, conn_calls>>
    /\ UNCHANGED genVars
    /\ UNCHANGED <<session, doctor_slots, appointments, next_appointment_id,
                   request, response, posted, usernames, db_log, recordVars>>

\* Lines 173-178: a statement raises an sqlite3.Error; it is logged, and the
\* call goes on to sleep or re-raises it.
ExceptSqliteError ==
    /\ InTry
    /\ "sqlite3.Error" \in Raises(conn_pc)
    /\ LET e == [attempt |-> attempt, step |-> conn_pc, kind |-> "sqlite3.Error"]
       IN  /\ conn_errors' = Append(conn_errors, e)
           /\ IF RetryAllowed(attempt)
              THEN /\ conn_pc' = "sleep"
                   /\ UNCHANGED conn_result
              ELSE /\ conn_pc' = "raised"
                   /\ conn_result' = [kind |-> "sqlite3.Error",
                                      attempt |-> attempt, error |-> e]
    /\ UNCHANGED <<attempt, slept, conn_calls>>
    /\ UNCHANGED genVars
    /\ UNCHANGED <<session, doctor_slots, appointments, next_appointment_id,
                   request, response, posted, usernames, db_log, recordVars>>

\* Lines 179-181: a statement raises another Exception; it is logged and
\* raised again.
ExceptException ==
    /\ InTry
    /\ "Exception" \in Raises(conn_pc)
    /\ LET e == [attempt |-> attempt, step |-> conn_pc, kind |-> "Exception"]
       IN  /\ conn_errors' = Append(conn_errors, e)
           /\ conn_result' = [kind |-> "Exception", attempt |-> attempt,
                              error |-> e]
    /\ conn_pc' = "raised"
    /\ UNCHANGED <<attempt, slept, conn_calls>>
    /\ UNCHANGED genVars
    /\ UNCHANGED <<session, doctor_slots, appointments, next_appointment_id,
                   request, response, posted, usernames, db_log, recordVars>>

\* Lines 176-177 and 161: time.sleep(retry_delay), then continue: the for
\* statement takes the next value of range(max_retries); when there is none
\* the loop ends and the function returns None.
SleepAndContinue ==
    /\ conn_pc = "sleep"
    /\ slept' = slept + retry_delay
    /\ IF attempt + 1 < max_retries
       THEN /\ attempt' = attempt + 1
            /\ conn_pc' = "get_db_path"
            /\ UNCHANGED conn_result
       ELSE /\ attempt' = attempt
            /\ conn_pc' = "returned"
            /\ conn_result' = [kind |-> "None", attempt |-> attempt,
                               error |-> NoError]
    /\ UNCHANGED <<conn_errors, conn_calls>>
    /\ UNCHANGED genVars
    /\ UNCHANGED <<session, doctor_slots, appointments, next_appointment_id,
                   request, response, posted, usernames, db_log, recordVars>>

\* A step of a call in progress.
ConnStep ==
    \/ TryStatement
    \/ ExceptSqliteError
    \/ ExceptException
    \/ SleepAndContinue

ConnNext ==
    \/ get_db_connection
    \/ ConnStep

SpecConn == AppInit /\ [][ConnNext]_vars

\* A call in progress runs on: each statement returns or raises, and
\* time.sleep returns after retry_delay seconds.
FairSpecConn == SpecConn /\ WF_vars(ConnStep)

\* ------------------------------------------------------------------ claims

StartDt == strptime(args.start_time)
EndDt == strptime(args.end_time)
BreakStartDt == strptime(args.break_start)
BreakEndDt == strptime(args.break_end)
NoBreakArgs == ~HasBreak(args.break_start, args.break_end)
BreakArgs ==
    /\ HasBreak(args.break_start, args.break_end)
    /\ ValidTime(args.break_start)
    /\ ValidTime(args.break_end)
SlotStart(i) == strptime(slots[i].start)
SlotEnd(i) == strptime(slots[i].end)
Starts == [i \in 1..Len(slots) |-> slots[i].start]

\* C1: with start < end, no break and interval >= 1, the returned list has
\* exactly floor((end - start) / interval) slots.
C1_SlotCount ==
    (pc = "done" /\ NoBreakArgs /\ args.interval >= 1 /\ StartDt < EndDt)
    => Len(slots) = (EndDt - StartDt) \div args.interval

C1_Witness ==
    /\ pc = "done" /\ NoBreakArgs /\ args.interval >= 1 /\ StartDt < EndDt
    /\ Len(slots) >= 2
    /\ (EndDt - StartDt) % args.interval # 0

\* C2: with start < end, no break and interval >= 1, the first slot starts at
\* start and every later slot starts where the previous one ends.
C2_Tiling ==
    (pc = "done" /\ NoBreakArgs /\ args.interval >= 1 /\ StartDt < EndDt)
    => /\ Len(slots) >= 1 => slots[1].start = args.start_time
       /\ \A i \in 1..(Len(slots) - 1) : slots[i + 1].start = slots[i].end

C2_Witness ==
    /\ pc = "done" /\ NoBreakArgs /\ args.interval >= 1 /\ StartDt < EndDt
    /\ Len(slots) >= 3
    /\ slots[1].display_start[3] = "am"
    /\ slots[3].display_start[3] = "pm"

\* The break is aligned to the slot boundaries: both ends are start plus a
\* multiple of interval, and start <= breakStart < breakEnd <= end.
AlignedTime(t) == t >= StartDt /\ (t - StartDt) % args.interval = 0
AlignedBreak ==
    /\ BreakArgs
    /\ args.interval >= 1
    /\ StartDt <= BreakStartDt /\ BreakStartDt < BreakEndDt /\ BreakEndDt <= EndDt
    /\ AlignedTime(BreakStartDt) /\ AlignedTime(BreakEndDt)

\* C3: with a break aligned to the slot boundaries, no slot of the list starts
\* in [breakStart, breakEnd).
C3_NoSlotInAlignedBreak ==
    (pc \in {"loop", "done"} /\ AlignedBreak)
    => \A i \in 1..Len(slots) :
           ~(BreakStartDt <= SlotStart(i) /\ SlotStart(i) < BreakEndDt)

C3_Witness ==
    /\ pc = "done" /\ AlignedBreak
    /\ BreakEndDt - BreakStartDt >= 2 * args.interval
    /\ \E i, j \in 1..Len(slots) :
           SlotEnd(i) = BreakStartDt /\ SlotStart(j) = BreakEndDt

\* The candidate at the cursor straddles the start of the break: it starts
\* before breakStart and ends inside the break.
Straddles(s, e) == s < BreakStartDt /\ BreakStartDt < e /\ e <= BreakEndDt

\* C4: a candidate that straddles the start of the break is not appended, and
\* it does not trigger the skip: the cursor moves on to the candidate's end.
C4_StraddlingDropped ==
    [][(/\ pc = "loop" /\ pc' = "loop"
        /\ BreakArgs /\ args.interval >= 1
        /\ Straddles(current_time, current_time + args.interval))
       => (slots' = slots /\ current_time' = current_time + args.interval)]_vars

\* C5 as stated: the scenario gives 9 slots, ending 11:00, 11:15, 11:30 and
\* 11:45, and no slot 10:15-10:30.
C5_NineSlots ==
    (pc = "done" /\ args = ScenarioArgs)
    => /\ Len(slots) = 9
       /\ SubSeq(Starts, 6, 9) = << <<11, 0>>, <<11, 15>>, <<11, 30>>, <<11, 45>> >>
       /\ \A i \in 1..Len(slots) : slots[i].start # <<10, 15>>

\* C5 (amended): window 09:00-12:00, break 10:30-11:00, interval 15 gives 10
\* slots: 09:00 to 10:15 (six, the last one 10:15-10:30, ending where the
\* break starts), then 11:00, 11:15, 11:30 and 11:45.
C5_TenSlots ==
    (pc = "done" /\ args = ScenarioArgs)
    => /\ Starts = << <<9, 0>>, <<9, 15>>, <<9, 30>>, <<9, 45>>, <<10, 0>>,
                      <<10, 15>>, <<11, 0>>, <<11, 15>>, <<11, 30>>, <<11, 45>> >>
       /\ slots[6].end = <<10, 30>>
       /\ slots[10].end = <<12, 0>>

C5_Witness == pc = "done" /\ args = ScenarioArgs /\ iters = 11

\* C6: a call with interval <= 0 signals an input error instead of looping: on
\* a window with start < end it runs no loop iteration and returns no list.
\* (With start >= end the loop body is never entered and [] is returned.)
C6_RejectsNonPositiveInterval ==
    (args.interval <= 0 /\ pc \in {"loop", "done"} /\ StartDt < EndDt)
    => (iters = 0 /\ pc # "done")

\* Every string the call parses is a time of day.
ArgsParse ==
    /\ ValidTime(args.start_time) /\ ValidTime(args.end_time)
    /\ HasBreak(args.break_start, args.break_end)
       => (ValidTime(args.break_start) /\ ValidTime(args.break_end))

\* C7: with interval >= 1 and any break pair, the cursor strictly increases on
\* every loop iteration, the skip included, and the call returns.
C7_Terminates ==
    /\ [][(pc = "loop" /\ pc' = "loop" /\ args.interval >= 1)
          => current_time' > current_time]_vars
    /\ (pc = "call" /\ args.interval >= 1 /\ ArgsParse) ~> (pc = "done")

\* The call returned after one skip, to a break end outside the window.
C7_Witness ==
    /\ pc = "done" /\ args.interval >= 1 /\ BreakArgs
    /\ BreakEndDt > EndDt
    /\ current_time = BreakEndDt
    /\ Len(slots) >= 1 /\ iters = Len(slots) + 1
    /\ SlotEnd(Len(slots)) + args.interval <= EndDt

\* C9: with no break and interval >= 1, a window with start >= end or shorter
\* than interval gives the empty list, and nothing is raised.
C9_EmptyWhenTooShort ==
    (/\ ValidTime(args.start_time) /\ ValidTime(args.end_time)
     /\ NoBreakArgs /\ args.interval >= 1
     /\ (StartDt >= EndDt \/ EndDt - StartDt < args.interval))
    => (pc # "raised" /\ (pc \in {"loop", "done"} => slots = <<>>))

C9_Witness ==
    /\ pc = "done" /\ NoBreakArgs /\ args.interval >= 1
    /\ StartDt < EndDt /\ EndDt - StartDt < args.interval
    /\ iters = 1 /\ slots = <<>>

\* C8: a call returns what an earlier call with the same arguments returned,
\* whatever calls were made in between.
C8_SameArgsSameResult ==
    (pc \in {"done", "raised"} /\ args = remembered.args)
    => (slots = remembered.slots /\ exc = remembered.exc)

C8_Witness ==
    /\ pc = "done" /\ args = remembered.args
    /\ between
    /\ Len(slots) >= 2

\* The doctor_slots rows a get_doctor_slots request reads: those of the
\* requested doctor, the weekday of the requested date and the session's
\* hospital.
RequestWindows ==
    LET Match(row) == SameSlotKey(row, request.doctor_id,
                                  strftime_A(request.date), session.hospital_id)
    IN  SelectSeq(doctor_slots, Match)

\* The appointments of the requested doctor and date in the session's hospital
\* that are cancelled, or that are not.
RequestAppointments(cancelled) ==
    {i \in 1..Len(appointments) :
        /\ appointments[i].doctor_id = request.doctor_id
        /\ appointments[i].date = request.date
        /\ appointments[i].hospital_id = session.hospital_id
        /\ (appointments[i].status = "Cancelled") = cancelled}

\* The latest response is get_doctor_slots' answer with a slot list.
SlotsAnswered == response.status = 200 /\ response.error = "none"

\* C10: the slots of a get_doctor_slots response are the full sequence
\* generated from the stored window, whatever appointments exist: a booked
\* slot stays in slots and is listed in booked_slots.  Window 09:00-10:00 with
\* one appointment that is not cancelled, at 09:30, gives 4 slots and
\* booked_slots = ["09:30"].
C10_BookedSlotsStayListed ==
    SlotsAnswered =>
        LET w == RequestWindows[1]
            full == generate_time_slots(w.start_time, w.end_time, w.break_start,
                                        w.break_end, DefaultInterval).slots
            taken == RequestAppointments(FALSE)
        IN  /\ response.slots = full
            /\ \A i \in taken :
                   /\ \E k \in 1..Len(response.booked_slots) :
                          response.booked_slots[k] = appointments[i].time_slot
                   /\ (\E j \in 1..Len(full) :
                          full[j].start = appointments[i].time_slot)
                      => \E k \in 1..Len(response.slots) :
                             response.slots[k].start = appointments[i].time_slot
            /\ (/\ w.start_time = <<9, 0>> /\ w.end_time = <<10, 0>>
                /\ ~HasBreak(w.break_start, w.break_end)
                /\ Cardinality(taken) = 1
                /\ \A i \in taken : appointments[i].time_slot = <<9, 30>>)
               => (/\ Len(response.slots) = 4
                   /\ response.booked_slots = << <<9, 30>> >>)

\* The scenario, with a cancelled appointment on the same doctor and date.
C10_Witness ==
    /\ SlotsAnswered
    /\ Len(response.slots) = 4
    /\ response.slots[3].start = <<9, 30>>
    /\ response.booked_slots = << <<9, 30>> >>
    /\ RequestAppointments(TRUE) # {}

\* The time slots the latest response lists as booked.
BookedListed == {response.booked_slots[k] : k \in 1..Len(response.booked_slots)}

\* C11: after any sequence of schedule_appointment, update_appointment_status
\* and delete_appointment requests, a time slot is in booked_slots of a
\* get_doctor_slots response exactly when the appointments table holds a row
\* of the requested doctor and date in the session's hospital with that
\* time_slot and a status other than Cancelled; a cancelled appointment, or a
\* deleted one, no longer occupies its slot.
C11_BookedIffLiveAppointment ==
    SlotsAnswered =>
        BookedListed =
            {appointments[i].time_slot : i \in RequestAppointments(FALSE)}

\* A slot list answered with nothing booked, after one appointment of the
\* doctor and date was cancelled and another deleted.
C11_Witness ==
    /\ SlotsAnswered
    /\ response.booked_slots = <<>>
    /\ RequestAppointments(TRUE) # {}
    /\ Len(appointments) < next_appointment_id - 1

\* C12: in every get_doctor_slots response, each entry of booked_slots is the
\* start of one of the slots in the same response.
C12_BookedAreSlotStarts ==
    SlotsAnswered =>
        \A t \in BookedListed :
            \E j \in 1..Len(response.slots) : response.slots[j].start = t

\* The latest request was get_doctor_slots by an admin with a date that
\* parses, and no doctor_slots row has the requested doctor, the weekday of
\* the date and the admin's hospital.
NoWindowRequested ==
    /\ request # NoRequest
    /\ IsAdmin
    /\ ValidDate(request.date)
    /\ \A i \in 1..Len(doctor_slots) :
           ~ /\ doctor_slots[i].doctor_id = request.doctor_id
             /\ doctor_slots[i].day_of_week = strftime_A(request.date)
             /\ doctor_slots[i].hospital_id = session.hospital_id

\* C13: when no doctor_slots row exists for the requested doctor, weekday and
\* hospital, get_doctor_slots answers without an error status (no 4xx, no
\* 5xx), with no slots, and says the doctor is not available on that day.
C13_NoWindowNotAvailable ==
    NoWindowRequested =>
        /\ response.status = 200
        /\ response.slots = <<>>
        /\ response.booked_slots = <<>>
        /\ response.error = "Doctor not available on this day"

\* A Sunday asked of a doctor whose only window is Monday's.
C13_Witness ==
    /\ NoWindowRequested
    /\ strftime_A(request.date) = "Sunday"
    /\ \E i \in 1..Len(doctor_slots) :
           /\ doctor_slots[i].doctor_id = request.doctor_id
           /\ doctor_slots[i].hospital_id = session.hospital_id
    /\ response.status = 200

\* The rows of doctor_slots, as a set.
StoredWindows == {doctor_slots[i] : i \in 1..Len(doctor_slots)}

\* C16: after any sequence of set_doctor_slots POSTs, doctor_slots holds at
\* most one row for each (doctor_id, day_of_week, hospital_id), and the row
\* carries exactly the values of the most recent POST that was stored for it.
C16_OneRowPerKeyLatestPost ==
    /\ \A i, j \in 1..Len(doctor_slots) :
           (/\ doctor_slots[i].doctor_id = doctor_slots[j].doctor_id
            /\ doctor_slots[i].day_of_week = doctor_slots[j].day_of_week
            /\ doctor_slots[i].hospital_id = doctor_slots[j].hospital_id)
           => i = j
    /\ StoredWindows = posted

\* Two doctors' Mondays stored, the later row with a break.
C16_Witness ==
    /\ Len(doctor_slots) = 2
    /\ doctor_slots[1].doctor_id = 2
    /\ doctor_slots[2].doctor_id = 1
    /\ doctor_slots[2].break_start = <<9, 30>>
    /\ posted = StoredWindows

\* C17: nothing makes an appointment unique on its slot: whatever rows the
\* table holds, an admin's schedule_appointment POST with every field filled
\* inserts its row, so two requests for the same doctor, date and time slot
\* in one hospital both succeed.
C17_BookingNeverRefused ==
    \A d \in DoctorIds, date \in BookingDates :
        (IsAdmin /\ next_appointment_id <= MaxAppts)
        => ENABLED (/\ schedule_appointment(<<1>>, <<d>>, date, <<9, 30>>)
                    /\ Len(appointments') = Len(appointments) + 1)

\* Two appointments that are not cancelled on one doctor, date, time slot and
\* hospital.
C17_Witness ==
    \E i, j \in 1..Len(appointments) :
        /\ i # j
        /\ appointments[i].doctor_id = appointments[j].doctor_id
        /\ appointments[i].date = appointments[j].date
        /\ appointments[i].time_slot = appointments[j].time_slot
        /\ appointments[i].hospital_id = appointments[j].hospital_id
        /\ appointments[i].status # "Cancelled"
        /\ appointments[j].status # "Cancelled"

\* The rows of a table that belong to the session's hospital.
TenantRows(table) ==
    LET Own(row) == row.hospital_id = session.hospital_id
    IN  SelectSeq(table, Own)

\* C19: the get_doctor_slots response to an admin depends only on the
\* doctor_slots and appointments rows of the admin's hospital: it is the
\* response the same request gets with every other hospital's rows removed.
C19_ResponseFromOwnTenantRows ==
    (request # NoRequest /\ IsAdmin) =>
        response = get_doctor_slots_run(session, TenantRows(doctor_slots),
                                        TenantRows(appointments),
                                        request.doctor_id, request.date,
                                        "none").response

\* A slot list answered with nothing booked while another hospital holds a
\* window and a live appointment on the requested doctor and date.
C19_Witness ==
    /\ SlotsAnswered
    /\ IsAdmin
    /\ response.booked_slots = <<>>
    /\ \E i \in 1..Len(appointments) :
           /\ appointments[i].doctor_id = request.doctor_id
           /\ appointments[i].date = request.date
           /\ appointments[i].status # "Cancelled"
           /\ appointments[i].hospital_id # session.hospital_id
    /\ \E i \in 1..Len(doctor_slots) :
           doctor_slots[i].hospital_id # session.hospital_id

\* The doctor_slots rows of the requested doctor, the weekday of the requested
\* date and the session's hospital.
RequestedWindowRows ==
    {i \in 1..Len(doctor_slots) :
        /\ doctor_slots[i].doctor_id = request.doctor_id
        /\ doctor_slots[i].day_of_week = strftime_A(request.date)
        /\ doctor_slots[i].hospital_id = session.hospital_id}

\* The latest request was get_doctor_slots and passed both guards.
SlotsRequestPassed ==
    request # NoRequest /\ IsAdmin /\ ValidDate(request.date)

\* Slot generation raised: the stored window does not parse.
GenerationRaised ==
    /\ request.fault \notin {"connect", "execute1"}
    /\ \E i \in RequestedWindowRows :
           generate_time_slots(doctor_slots[i].start_time,
               doctor_slots[i].end_time, doctor_slots[i].break_start,
               doctor_slots[i].break_end, DefaultInterval).exc # "none"

\* One of the two queries raised: the window query, or the booked-slots
\* query, which runs once a window was found and its slots were generated.
QueryRaised ==
    \/ request.fault = "execute1"
    \/ /\ request.fault = "execute2"
       /\ RequestedWindowRows # {}
       /\ ~GenerationRaised

\* C14: get_doctor_slots answers 401 when the session is not an admin's, 400
\* when the date does not parse, and 500 when a query or the slot generation
\* raises; the session is checked before the date, and the date before the
\* database is touched.
C14_GuardsInOrder ==
    request # NoRequest =>
        /\ ~IsAdmin => (response.status = 401 /\ db_log = <<>>)
        /\ (IsAdmin /\ ~ValidDate(request.date))
           => (response.status = 400 /\ db_log = <<>>)
        /\ (SlotsRequestPassed /\ (QueryRaised \/ GenerationRaised))
           => response.status = 500

\* A request without an admin session and with a date that does not parse,
\* answered 401.
C14_Witness ==
    /\ request # NoRequest
    /\ ~IsAdmin
    /\ ~ValidDate(request.date)
    /\ request.fault = "execute1"
    /\ response.status = 401

\* C15: a request that acquired a database connection has closed it when the
\* request ends, on every path: success, validation failure, record not
\* found and exception.
C15_ConnectionClosedAtEnd ==
    InLog(db_log, "connect") => db_log[Len(db_log)] = "close"

\* C18: every stored doctor_slots row has its start before its end and, when
\* it has a break, the break inside the window with its start before its
\* end.
C18_StoredWindowsWellFormed ==
    \A i \in 1..Len(doctor_slots) :
        LET w == doctor_slots[i]
        IN  /\ ValidTime(w.start_time) /\ ValidTime(w.end_time)
            /\ strptime(w.start_time) < strptime(w.end_time)
            /\ HasBreak(w.break_start, w.break_end)
               => /\ ValidTime(w.break_start) /\ ValidTime(w.break_end)
                  /\ strptime(w.start_time) <= strptime(w.break_start)
                  /\ strptime(w.break_start) < strptime(w.break_end)
                  /\ strptime(w.break_end) <= strptime(w.end_time)

\* C20: when a query of get_doctor_slots fails, the caller gets the status
\* 500 and an error, never a success with an empty slot list or the answer
\* that the doctor is not available.
C20_QueryFailureIs500 ==
    (SlotsRequestPassed /\ QueryRaised) =>
        /\ response.status = 500
        /\ response.error = "Server error"
        /\ response.slots = <<>>

\* The booked-slots query failed for a doctor with a window and a live
\* appointment on the date.
C20_Witness ==
    /\ SlotsRequestPassed
    /\ request.fault = "execute2"
    /\ QueryRaised
    /\ \E i \in 1..Len(appointments) :
           /\ appointments[i].doctor_id = request.doctor_id
           /\ appointments[i].date = request.date
           /\ appointments[i].hospital_id = session.hospital_id
    /\ response.status = 500
    /\ db_log = <<"connect", "execute", "execute", "close">>

\* A call with interval >= 1 whose strings all parse, in its loop or returned.
SlotsBuilt == pc \in {"loop", "done"} /\ args.interval >= 1 /\ ArgsParse

\* C21: with interval >= 1 and any break, every slot of the list lies inside
\* the window and has the slot length: start <= slot.start,
\* slot.end = slot.start + interval and slot.end <= end.
C21_SlotsInsideWindow ==
    SlotsBuilt =>
        \A i \in 1..Len(slots) :
            /\ StartDt <= SlotStart(i)
            /\ SlotEnd(i) = SlotStart(i) + args.interval
            /\ SlotEnd(i) <= EndDt

\* A returned list with a break skipped, the last slot ending before end.
C21_Witness ==
    /\ pc = "done" /\ args.interval >= 1 /\ BreakArgs
    /\ Len(slots) >= 2
    /\ \E i \in 1..(Len(slots) - 1) : slots[i + 1].start # slots[i].end
    /\ SlotEnd(Len(slots)) < EndDt

\* C22: with interval >= 1 and any break, the slots are in strictly
\* increasing order of start and do not overlap: each slot starts at or after
\* the end of the one before it.
C22_SlotsOrderedDisjoint ==
    SlotsBuilt =>
        \A i \in 1..(Len(slots) - 1) :
            /\ SlotStart(i) < SlotStart(i + 1)
            /\ SlotEnd(i) <= SlotStart(i + 1)

\* A returned list of three slots or more with a break whose end is not on
\* the slot boundaries.
C22_Witness ==
    /\ pc = "done" /\ args.interval >= 1 /\ BreakArgs
    /\ Len(slots) >= 3
    /\ (BreakEndDt - StartDt) % args.interval # 0
    /\ \E i \in 1..(Len(slots) - 1) : SlotEnd(i) < SlotStart(i + 1)

\* The rows last stored by a set_doctor_slots POST, and not removed since by
\* delete_doctor, for the requested doctor, the weekday of the requested date
\* and the session's hospital.
PostedForRequest ==
    {r \in posted :
        /\ r.doctor_id = request.doctor_id
        /\ r.day_of_week = strftime_A(request.date)
        /\ r.hospital_id = session.hospital_id}

\* C23: after a set_doctor_slots POST stored window W for a doctor, a weekday
\* and a hospital, and until the next such POST or delete_doctor for the
\* key, a get_doctor_slots request of an admin of the hospital for a date on
\* that weekday returns exactly the list generate_time_slots gives for W with
\* interval 15 (and 500 when generate_time_slots raises on W).
C23_StoredWindowIsServed ==
    SlotsRequestPassed =>
        \A r \in PostedForRequest :
            LET g == generate_time_slots(r.start_time, r.end_time,
                         r.break_start, r.break_end, 15)
            IN  IF g.exc = "none"
                THEN /\ response.status = 200
                     /\ response.error = "none"
                     /\ response.slots = g.slots
                ELSE response.status = 500

\* The window with a break served for a Monday after the other hospital's
\* doctor was deleted.
C23_Witness ==
    /\ SlotsRequestPassed
    /\ \E r \in PostedForRequest : r.break_start = <<9, 30>>
    /\ Len(response.slots) = 4
    /\ response.slots[3].start = <<10, 0>>
    /\ doctors # DoctorRows

\* C24: every appointments row refers to a doctor and to a patient of the
\* appointment's own hospital: schedule_appointment stores no appointment of
\* one hospital for a doctor or a patient of another, or for an id that does
\* not exist.
C24_AppointmentsWithinTenant ==
    \A i \in 1..Len(appointments) :
        /\ \E d \in doctors :
               /\ d.id = appointments[i].doctor_id
               /\ d.hospital_id = appointments[i].hospital_id
        /\ \E p \in patients :
               /\ p.id = appointments[i].patient_id
               /\ p.hospital_id = appointments[i].hospital_id

\* C25: every prescriptions row refers to an appointment that still exists:
\* removing an appointment removes its prescription.
C25_PrescriptionHasAppointment ==
    \A r \in prescriptions :
        \E i \in 1..Len(appointments) : appointments[i].id = r.appointment_id

\* C26: no request runs a query on a connection it has already closed: after
\* the finally block of a failed POST write closed the connection, the
\* handler does not query it to render the form.
C26_NoQueryAfterClose ==
    \A i, j \in 1..Len(db_log) :
        (i < j /\ db_log[i] = "close") => db_log[j] # "execute"

\* The rows of a table that are not of a doctor in a hospital.
NotOfDoctor(table, doctor_id, hospital_id) ==
    LET Kept(row) == ~(row.doctor_id = doctor_id /\ row.hospital_id = hospital_id)
    IN  SelectSeq(table, Kept)

\* The ids of the appointments of a doctor in a hospital.
AppointmentIdsOf(doctor_id, hospital_id) ==
    {appointments[i].id : i \in
        {j \in 1..Len(appointments) :
            /\ appointments[j].doctor_id = doctor_id
            /\ appointments[j].hospital_id = hospital_id}}

\* The request of an admin for a doctor of the admin's hospital, no
\* statement failing.
DeleteDoctorSucceeds(doctor_id, fault) ==
    /\ IsAdmin
    /\ fault = "none"
    /\ \E d \in doctors : d.id = doctor_id /\ d.hospital_id = session.hospital_id

\* C27: delete_doctor is all or nothing.  When it succeeds, no doctor_slots,
\* appointments or doctors row of the doctor in the hospital remains, nor a
\* prescription of those appointments; when a statement fails, the rollback
\* leaves the four tables as they were; every other row is unchanged in both
\* cases.
C27_DeleteDoctorAllOrNothing ==
    [][\A doctor_id \in DoctorIds, fault \in DeleteFaults :
          delete_doctor(doctor_id, fault) =>
              IF DeleteDoctorSucceeds(doctor_id, fault)
              THEN /\ doctor_slots' =
                          NotOfDoctor(doctor_slots, doctor_id, session.hospital_id)
                   /\ appointments' =
                          NotOfDoctor(appointments, doctor_id, session.hospital_id)
                   /\ prescriptions' =
                          {r \in prescriptions :
                              r.appointment_id \notin
                                  AppointmentIdsOf(doctor_id, session.hospital_id)}
                   /\ doctors' =
                          {d \in doctors :
                              ~ /\ d.id = doctor_id
                                /\ d.hospital_id = session.hospital_id}
              ELSE UNCHANGED <<doctor_slots, appointments, prescriptions, doctors>>
      ]_vars

\* Doctor 1 deleted by its hospital's admin, while the other doctor's window
\* and another hospital's appointment with doctor 1 are still stored.
C27_Witness ==
    /\ doctors = {d \in DoctorRows : d.id # 1}
    /\ IsAdmin /\ session.hospital_id = 1
    /\ \E i \in 1..Len(doctor_slots) : doctor_slots[i].doctor_id = 2
    /\ \E i \in 1..Len(appointments) :
           appointments[i].doctor_id = 1 /\ appointments[i].hospital_id = 2
    /\ \A i \in 1..Len(appointments) :
           ~(appointments[i].doctor_id = 1 /\ appointments[i].hospital_id = 1)
    /\ next_appointment_id > Len(appointments) + 1

\* A request to one of the /admin/ handlers that write.
AdminWriteRequest ==
    \/ \E doctor_id \in DoctorIds, day \in DayInputs, w \in RecordWindows :
           set_doctor_slots(doctor_id, day, w)
    \/ \E doctor_id \in DoctorIds, date \in BookingDates,
          time_slot \in TimeSlotInputs :
           schedule_appointment(<<1>>, <<doctor_id>>, date, time_slot)
    \/ \E appointment_id \in 1..MaxAppts : delete_appointment(appointment_id)
    \/ \E doctor_id \in DoctorIds : delete_doctor(doctor_id, "none")

\* A request to one of the gated /doctor/ handlers that write.
DoctorWriteRequest ==
    \/ \E appointment_id \in 1..MaxAppts, status \in StatusInputs :
           update_appointment_status(appointment_id, status)
    \/ \E appointment_id \in 1..MaxAppts : prescriptions_post(appointment_id)

\* C28: a request to an /admin/ handler from a session that is not a
\* logged-in admin, or to a gated /doctor/ handler from a session that is not
\* a logged-in doctor, writes nothing to the database; so it is from logout
\* to the next successful login.
C28_NoWriteWithoutRole ==
    [][(\/ ~IsAdmin /\ AdminWriteRequest
        \/ ~IsDoctor /\ DoctorWriteRequest)
       => UNCHANGED <<doctor_slots, appointments, next_appointment_id, usernames,
                      doctors, patients, prescriptions>>
      ]_vars

\* After a logout, with a window and an appointment stored, a request to
\* get_doctor_slots was refused.
C28_Witness ==
    /\ session = NoSession
    /\ doctor_slots # <<>>
    /\ appointments # <<>>
    /\ response.status = 401

\* C29: delete_patient never removes a patient who has an appointment: no
\* appointments row refers to a patient that delete_patient removed, however
\* schedule_appointment, delete_appointment and delete_patient requests
\* interleave.
C29_NoAppointmentOfDeletedPatient ==
    \A i \in 1..Len(appointments) :
        appointments[i].patient_id \notin deleted_patients

\* A call of get_db_connection is in progress.
ConnRunning == conn_pc \notin {"idle", "returned", "raised"}

\* The call has returned or raised.
ConnEnded == conn_pc \in {"returned", "raised"}

\* What holds of a call of get_db_connection at every point.
ConnBounded ==
    /\ attempt < 3
    /\ Len(conn_errors) <= 3
    /\ \A i \in 1..Len(conn_errors) :
           /\ conn_errors[i].attempt = i - 1
           /\ i < Len(conn_errors) => conn_errors[i].kind = "sqlite3.Error"
    /\ ConnRunning => attempt = Len(conn_errors) - (IF conn_pc = "sleep" THEN 1 ELSE 0)
    /\ conn_pc = "sleep" =>
           /\ conn_errors[Len(conn_errors)].kind = "sqlite3.Error"
           /\ Len(conn_errors) < 3
    /\ conn_pc = "returned" =>
           /\ conn_result.kind = "conn"
           /\ conn_result.attempt = Len(conn_errors)
           /\ \A i \in 1..Len(conn_errors) : conn_errors[i].kind = "sqlite3.Error"
    /\ conn_pc = "raised" =>
           /\ conn_errors # <<>>
           /\ conn_result.error = conn_errors[Len(conn_errors)]
           /\ conn_result.kind = conn_errors[Len(conn_errors)].kind
           /\ conn_result.kind = "sqlite3.Error" => Len(conn_errors) = 3
    /\ Len(conn_errors) = 3 => conn_pc = "raised"
    /\ \A i \in 1..Len(conn_errors) :
           conn_errors[i].kind = "Exception" => conn_pc = "raised"

\* C30: database.get_db_connection makes at most 3 attempts.  It returns the
\* connection of the first attempt that succeeds, retries only after an
\* sqlite3.Error and only while fewer than 3 attempts have been made,
\* re-raises the error of the 3rd failed attempt, raises any other exception
\* at once, and every call returns or raises.
C30_AtMostThreeAttempts ==
    /\ []ConnBounded
    /\ ConnRunning ~> ConnEnded

\* The second call of a run raised the error of its third attempt, the test
\* query's, after two sleeps.
C30_Witness ==
    /\ conn_calls = 2
    /\ conn_pc = "raised"
    /\ Len(conn_errors) = 3
    /\ conn_result.error = [attempt |-> 2, step |-> "execute", kind |-> "sqlite3.Error"]
    /\ conn_errors[1].step = "connect"
    /\ slept = 2

====
